---- MODULE Spec2Model ----
(***************************************************************************)
(* A model of pacextractor.c: the command line of main, the PAC header,   *)
(* the walk over the length-prefixed partition records, the wide-string   *)
(* decoder getString and the chunked copy of extractPartition.            *)
(*                                                                         *)
(* Scaling.  The container is a sequence of cells.  One cell stands for   *)
(* one element of the C structs (an int16_t code unit or a 32-bit word)   *)
(* and holds a value in 0..Word-1, where Word stands for 2^32.  Offsets,  *)
(* lengths and sizes are counted in cells.  ByteMod stands for 2^8        *)
(* (the "& 0xFF" of getString), NameCap and FileCap for the 256 and 512   *)
(* code units of the name fields, BUFFER_SIZE for the 256 KiB chunk.      *)
(*                                                                         *)
(* Left out: printProgressBar (output only), the path arithmetic of       *)
(* createOutputDirectory and the truncation of outputFilePath by snprintf.*)
(* The output directory is a map from decoded file name to content.       *)
(***************************************************************************)
EXTENDS Integers, Sequences, FiniteSets, TLC

\* ------------------------------------------------------------- bounds
Word == 128
ByteMod == 8
NameCap == 2
FileCap == 3
BUFFER_SIZE == 2

\* ------------------------------------------------------------- helpers
Min(a, b) == IF a < b THEN a ELSE b
Max(a, b) == IF a > b THEN a ELSE b
SetMin(S) == CHOOSE x \in S : \A y \in S : x <= y

\* ------------------------------------------------- integer conversions
\* uint32_t: a value modulo Word.
ToU32(x) == x % Word
\* int32_t / int: the two's complement reading of a word.
ToI32(x) == LET u == x % Word IN IF 2 * u >= Word THEN u - Word ELSE u

Builds == {"ILP32", "LP64"}
\* size_t is as wide as a word on a 32-bit build and twice as wide on a
\* 64-bit build.
SizeMod(b) == IF b = "ILP32" THEN Word ELSE Word * Word
ToSizeT(b, x) == x % SizeMod(b)
\* sizeof(PartitionHeader*)
PtrSize(b) == IF b = "ILP32" THEN 4 ELSE 8
\* malloc cannot return an object larger than PTRDIFF_MAX.
PtrdiffMax(b) == (SizeMod(b) \div 2) - 1
\* off_t is a signed word on a 32-bit build (the source asks for no large
\* file support) and twice as wide on a 64-bit build.
OffMax(b) == (SizeMod(b) \div 2) - 1
\* lseek(fd, target, SEEK_SET), target a uint32_t, from the position pos:
\* the conversion to a 32-bit off_t makes the upper half negative, lseek
\* then fails and, its result being ignored, the position stays.
lseek(b, pos, target) == IF target > OffMax(b) THEN pos ELSE target

\* ------------------------------------------------------- struct layout
\* PacHeader, in cells: someField, someInt, productName, firmwareName,
\* partitionCount, partitionsListStart, someIntFields1, productName2,
\* someIntFields2, someIntFields3.
OffProductName == 2
OffFirmwareName == OffProductName + NameCap
OffPartitionCount == OffFirmwareName + NameCap
OffPartitionsListStart == OffPartitionCount + 1
PacHeaderSize == OffPartitionsListStart + 1 + 4

\* PartitionHeader, in cells: length, partitionName, fileName,
\* partitionSize, someFields1, partitionAddrInPac, someFields2; the
\* flexible member dataArray starts at PartitionHeaderSize.
LengthSize == 1
OffPartitionName == LengthSize
OffFileName == OffPartitionName + NameCap
OffPartitionSize == OffFileName + FileCap
OffPartitionAddrInPac == OffPartitionSize + 2
PartitionHeaderSize == OffPartitionAddrInPac + 2

\* ------------------------------------------------------------ getString
\* The offsets at or after off where the scan "while (*baseString)" stops.
Stops(mem, off) == {k \in off..(Len(mem) - 1) : mem[k + 1] = 0}

\* getString(baseString, resString) on the memory image mem, baseString
\* pointing at offset off.  res are the bytes stored through resString
\* before the terminating '\0'; fault says that the scan left the mapped
\* memory without meeting a zero code unit.  The test "resString -
\* resString > 255" is 0 > 255 and never breaks the loop.
getString(mem, off) ==
    IF Stops(mem, off) = {}
    THEN [res |-> [k \in 1..Max(Len(mem) - off, 0) |-> mem[off + k] % ByteMod],
          fault |-> TRUE]
    ELSE LET z == SetMin(Stops(mem, off))
         IN [res |-> [k \in 1..(z - off) |-> mem[off + k] % ByteMod],
             fault |-> FALSE]

\* The string the C library sees in a char buffer: up to the first '\0'.
CString(bytes) ==
    IF \E k \in 1..Len(bytes) : bytes[k] = 0
    THEN SubSeq(bytes, 1, SetMin({k \in 1..Len(bytes) : bytes[k] = 0}) - 1)
    ELSE bytes

\* ------------------------------------------------- the container file
\* The known byte pattern of the cells that belong to no header field.
Pattern(k) == 1 + (k % 5)

\* A name field filled to capacity with non-zero code units.
FullName(cap) == [k \in 1..cap |-> 1 + (k % 3)]

\* A wide-character field holding the code units of name, zero padded.
FieldCell(name, r) == IF r <= Len(name) THEN name[r] ELSE 0

\* Cell r of a partition record written with the PartitionHeader layout.
RecordCell(rec, r) ==
    IF r = 0 THEN rec.length
    ELSE IF r < OffFileName THEN FieldCell(rec.pname, r - OffPartitionName + 1)
    ELSE IF r < OffPartitionSize THEN FieldCell(rec.fname, r - OffFileName + 1)
    ELSE IF r = OffPartitionSize THEN rec.psize
    ELSE IF r = OffPartitionAddrInPac THEN rec.addr
    ELSE IF r < PartitionHeaderSize THEN 0
    ELSE 1

\* Cell k of a header written with the PacHeader layout.
HeaderCell(hdr, k) ==
    IF k < OffProductName THEN 0
    ELSE IF k < OffFirmwareName THEN FieldCell(<<1>>, k - OffProductName + 1)
    ELSE IF k < OffPartitionCount THEN FieldCell(hdr.fwname, k - OffFirmwareName + 1)
    ELSE IF k = OffPartitionCount THEN ToU32(hdr.count)
    ELSE IF k = OffPartitionsListStart THEN ToU32(hdr.start)
    ELSE 0

\* Where record j of the table lies: the records are laid out contiguously.
RECURSIVE RecordOffset(_, _, _)
RecordOffset(start, recs, j) ==
    IF j = 1 THEN start
    ELSE RecordOffset(start, recs, j - 1) + recs[j - 1].length

Covering(start, recs, k) ==
    {j \in 1..Len(recs) :
        /\ RecordOffset(start, recs, j) <= k
        /\ k < RecordOffset(start, recs, j) + Max(recs[j].length, LengthSize)}

\* The container of fileLen cells with header hdr and the records recs.
Container(hdr, recs, fileLen) ==
    [n \in 1..fileLen |->
        LET k == n - 1
        IN  IF k < PacHeaderSize THEN HeaderCell(hdr, k)
            ELSE IF Covering(hdr.start, recs, k) # {}
            THEN LET j == SetMin(Covering(hdr.start, recs, k))
                 IN RecordCell(recs[j], k - RecordOffset(hdr.start, recs, j))
            ELSE Pattern(k)]

\* --------------------------------------------------- the input families
\* The command lines tried: argv[0] is the program name.
ArgVectors ==
    { <<"pacextractor">>,
      <<"pacextractor", "-h">>,
      <<"pacextractor", "-v">>,
      <<"pacextractor", "-e", "fw.pac", "-o">>,
      <<"pacextractor", "-h", "a", "b", "c">>,
      <<"pacextractor", "-v", "a", "b", "c">>,
      <<"pacextractor", "-x", "fw.pac", "-o", "out">>,
      <<"pacextractor", "-e", "fw.pac", "-x", "out">>,
      <<"pacextractor", "-e", "fw.pac", "-o", "out">> }

\* The first cell after a table of two well-formed records.
PayloadStart == PacHeaderSize + 2 * (PartitionHeaderSize + 1)
FullLen == PayloadStart + 2 * BUFFER_SIZE + 1

Rec(l, pn, fn, sz, a) ==
    [length |-> l, pname |-> pn, fname |-> fn, psize |-> sz, addr |-> a]
Hdr(c, st, fw) == [count |-> c, start |-> st, fwname |-> fw]

PayloadSizes == {0, 1, BUFFER_SIZE, BUFFER_SIZE + 1, 2 * BUFFER_SIZE}
PlainRec == Rec(PartitionHeaderSize, <<1>>, <<1>>, 1, PayloadStart)

\* Well-formed containers: up to two records, payloads of every size class.
WellFormed ==
    LET R == {Rec(PartitionHeaderSize, <<1>>, fn, sz, PayloadStart + (sz % 2)) :
                 fn \in {<<1>>, <<2, 3>>}, sz \in PayloadSizes}
    IN  {Container(Hdr(c, PacHeaderSize, <<1>>), <<r1, r2>>, FullLen) :
            c \in 0..2, r1 \in R, r2 \in R}

\* Records of every declared length, in whole and truncated files.
OddLengths ==
    LET L == {0, LengthSize, OffPartitionSize, PartitionHeaderSize - 1,
              PartitionHeaderSize, PartitionHeaderSize + 1, Word - 1}
    IN  {Container(Hdr(c, PacHeaderSize, <<1>>),
                   <<Rec(l, <<1>>, <<2>>, 1, PayloadStart), PlainRec>>, n) :
            c \in 1..2, l \in L,
            n \in {PacHeaderSize, PacHeaderSize + LengthSize,
                   PacHeaderSize + PartitionHeaderSize - 1,
                   PacHeaderSize + 2 * PartitionHeaderSize - 1, FullLen}}

\* Files shorter than, or just as long as, the header.
ShortFiles ==
    {Container(Hdr(c, PacHeaderSize, <<1>>), <<PlainRec>>, n) :
        c \in 0..1, n \in {0, 1, PacHeaderSize - 1, PacHeaderSize}}

\* Payloads that end beyond the end of the file.
ShortPayloads ==
    {Container(Hdr(1, PacHeaderSize, <<1>>),
               <<Rec(PartitionHeaderSize, <<1>>, <<1>>, sz, PayloadStart)>>,
               PayloadStart + n) :
        sz \in {BUFFER_SIZE + 1, 2 * BUFFER_SIZE}, n \in {0, 1, BUFFER_SIZE}}

\* A table placed just below the largest offset a word can hold, in a file
\* that is larger than a word can count.
HighTables ==
    {Container(Hdr(c, Word - 4, <<1>>),
               <<Rec(l, <<1>>, <<1>>, 1, 0), Rec(l, <<2>>, <<2>>, 1, 1)>>,
               Word + 2 * PartitionHeaderSize + 8) :
        c \in 1..2, l \in {PartitionHeaderSize, PartitionHeaderSize + 2}}

\* Headers whose partitionCount is negative.
NegativeCounts ==
    {Container(Hdr(c, PacHeaderSize, <<1>>), <<PlainRec, PlainRec>>, FullLen) :
        c \in {-1, -2, -(Word \div 4), -(Word \div 2)}}

\* Name fields that are empty, filled to capacity, or hold wide code units.
NameShapes ==
    {Container(Hdr(1, PacHeaderSize, fw),
               <<Rec(PartitionHeaderSize, pn, fn, sz, PayloadStart)>>, FullLen) :
        fw \in {<<>>, FullName(NameCap)},
        pn \in {<<>>, <<ByteMod + 2>>, FullName(NameCap)},
        fn \in {<<>>, <<1, ByteMod>>, FullName(FileCap)},
        sz \in {0, 1}}

Containers ==
    WellFormed \cup OddLengths \cup ShortFiles \cup ShortPayloads
        \cup HighTables \cup NegativeCounts \cup NameShapes

\* The output directory before the run: empty, or holding stale files.
InitialFs ==
    { <<>>,
      [n \in {<<1>>} |-> <<7, 7, 7, 7, 7, 7, 7>>],
      [n \in {<<1>>, <<2, 3>>} |-> <<7>>] }

\* The values found in memory that the program never wrote.
Garbage == {0, 1}

\* ---------------------------------------------------------------- state
VARIABLES
    argv,          \* the command line
    build,         \* the data model the program was compiled for
    pc,            \* where main is
    exitCode,      \* the exit status, -1 while running or when killed
    err,           \* the diagnostic written before exit(EXIT_FAILURE)
    shown,         \* what -h and -v printed
    fd,            \* the descriptor of the firmware file, -1 before open
    container,     \* the cells of the opened firmware file
    fdPos,         \* the file offset of fd
    outDir,        \* what createOutputDirectory did
    fs,            \* the files of the output directory: name -> content
    pacHeader,     \* the decoded PacHeader
    curPos,        \* the record cursor of main
    partHeaders,   \* the memory image of every record read
    i,             \* the loop index of main
    fdNew,         \* the name of the output file being written
    dataSizeLeft,  \* extractPartition's local
    dataSizeRead,  \* extractPartition's local
    calls,         \* every getString call: field, capacity, source, result
    readLog,       \* offset and length of every record read
    printed,       \* the lines printed for the records
    extractLog     \* the indices extractPartition was called with

vars == <<argv, build, pc, exitCode, err, shown, fd, container, fdPos, outDir, fs,
          pacHeader, curPos, partHeaders, i, fdNew, dataSizeLeft, dataSizeRead,
          calls, readLog, printed, extractLog>>

inputVars == <<argv, build>>
fileVars == <<fd, container, fdPos>>
headerVars == <<pacHeader, curPos>>
copyVars == <<fdNew, dataSizeLeft, dataSizeRead>>
logVars == <<calls, readLog, printed, extractLog>>

NoHeader == [partitionCount |-> 0, partitionsListStart |-> 0, firmwareName |-> <<>>]

Init ==
    /\ argv \in ArgVectors
    /\ build \in Builds
    /\ fs \in InitialFs
    /\ pc = "start"
    /\ exitCode = -1
    /\ err = ""
    /\ shown = "nothing"
    /\ fd = -1
    /\ container = <<>>
    /\ fdPos = 0
    /\ outDir = "untouched"
    /\ pacHeader = NoHeader
    /\ curPos = 0
    /\ partHeaders = <<>>
    /\ i = 0
    /\ fdNew = <<>>
    /\ dataSizeLeft = 0
    /\ dataSizeRead = 0
    /\ calls = <<>>
    /\ readLog = <<>>
    /\ printed = <<>>
    /\ extractLog = <<>>

\* exit(EXIT_FAILURE) after the diagnostic msg.
Fail(msg) == pc' = "exit" /\ exitCode' = 1 /\ err' = msg
\* The process is killed by the outcome of undefined behaviour.
Crash == pc' = "crashed" /\ exitCode' = -1 /\ err' = "killed"

\* ----------------------------------------------------------------- main
\* The dispatch on the command line.
Dispatch(av) ==
    IF Len(av) < 5 THEN "usage"
    ELSE IF av[2] = "-h" THEN "help"
    ELSE IF av[2] = "-v" THEN "version"
    ELSE IF av[2] = "-e" /\ av[4] = "-o" THEN "extract"
    ELSE "usage"

ParseArgs ==
    /\ pc = "start"
    /\ LET d == Dispatch(argv)
       IN  /\ pc' = IF d = "extract" THEN "open" ELSE "exit"
           /\ exitCode' = CASE d = "usage" -> 1
                            [] d \in {"help", "version"} -> 0
                            [] OTHER -> exitCode
           /\ shown' = CASE d \in {"usage", "help"} -> "usage"
                         [] d = "version" -> "version"
                         [] OTHER -> shown
    /\ UNCHANGED <<inputVars, err, fileVars, outDir, fs, headerVars, partHeaders,
                   i, copyVars, logVars>>

\* "firmwareSize < sizeof(PacHeader)", firmwareSize an int, sizeof a size_t.
FirmwareTooSmallSkewed(b, size) == ToSizeT(b, ToI32(size)) < LengthSize
FirmwareTooSmall(b, size) == ToSizeT(b, ToI32(size)) < PacHeaderSize

\* openFirmwareFile, fstat and the size test.
OpenFirmwareFile ==
    /\ pc = "open"
    /\ \/ /\ Fail(argv[3])
          /\ UNCHANGED fileVars
       \/ /\ Fail("Error getting file stats")
          /\ fd' = 3
          /\ UNCHANGED <<container, fdPos>>
       \/ \E c \in Containers :
            /\ Len(c) <= OffMax(build)
            /\ fd' = 3
            /\ container' = c
            /\ fdPos' = 0
            /\ IF FirmwareTooSmall(build, Len(c))
               THEN Fail("not a valid firmware")
               ELSE pc' = "mkdir" /\ UNCHANGED <<exitCode, err>>
    /\ UNCHANGED <<inputVars, shown, outDir, fs, headerVars, partHeaders, i,
                   copyVars, logVars>>

createOutputDirectory ==
    /\ pc = "mkdir"
    /\ \/ /\ outDir' = "failed"
          /\ Fail("Failed to create output directory")
       \/ /\ outDir' = "created"
          /\ pc' = "readhdr"
          /\ UNCHANGED <<exitCode, err>>
    /\ UNCHANGED <<inputVars, shown, fileVars, fs, headerVars, partHeaders, i,
                   copyVars, logVars>>

\* read(fd, buf, n) at file offset pos: an error, or as many of the n cells
\* as the file holds from pos on.
ReadResults(c, pos, n) == {-1, Min(n, Max(Len(c) - pos, 0))}

\* malloc(size) may return NULL for every size and must for an impossible one.
MallocResults(b, size) == IF size > PtrdiffMax(b) THEN {FALSE} ELSE BOOLEAN

\* The memory behind a pointer to n valid cells: the cells, then cells the
\* program never wrote, then unmapped memory.
Image(cells, g) == cells \o [k \in 1..PartitionHeaderSize |-> g]

\* One getString call as logged: the field, its capacity (which is also the
\* size of the destination array), the code units of the field and the
\* bytes stored.
Call(name, cap, mem, off) ==
    [field |-> name, cap |-> cap,
     src |-> SubSeq(mem, off + 1, Min(off + cap, Len(mem))),
     res |-> getString(mem, off).res]

\* The call stored its terminating '\0' (or more) past the destination.
Overflows(call) == Len(call.res) >= call.cap

\* readPacHeader, the firmware name, the cursor and the array of records.
readPacHeader ==
    /\ pc = "readhdr"
    /\ \E rb \in ReadResults(container, fdPos, PacHeaderSize), g \in Garbage,
          ok \in BOOLEAN :
        LET mem == Image(SubSeq(container, 1, PacHeaderSize), g)
            fw == getString(mem, OffFirmwareName)
            call == Call("firmwareName", NameCap, mem, OffFirmwareName)
            count == ToI32(mem[OffPartitionCount + 1])
            bytes == ToSizeT(build, ToSizeT(build, count) * PtrSize(build))
        IN  \/ /\ rb # PacHeaderSize
               /\ Fail("Error while reading PAC header")
               /\ UNCHANGED <<fdPos, headerVars, calls>>
            \/ /\ rb = PacHeaderSize
               /\ fw.fault \/ Overflows(call)
               /\ Crash
               /\ fdPos' = PacHeaderSize
               /\ calls' = Append(calls, call)
               /\ UNCHANGED headerVars
            \/ /\ rb = PacHeaderSize
               /\ ~fw.fault
               /\ fdPos' = PacHeaderSize
               /\ calls' = Append(calls, call)
               /\ pacHeader' = [partitionCount |-> count,
                                partitionsListStart |-> ToI32(mem[OffPartitionsListStart + 1]),
                                firmwareName |-> CString(fw.res)]
               /\ curPos' = ToU32(mem[OffPartitionsListStart + 1])
               /\ IF ok \in MallocResults(build, bytes) /\ ok
                  THEN pc' = "readrec" /\ UNCHANGED <<exitCode, err>>
                  ELSE Fail("Memory allocation failed for partition headers")
    /\ i' = 0
    /\ UNCHANGED <<inputVars, shown, fd, container, outDir, fs, partHeaders,
                   copyVars, readLog, printed, extractLog>>

\* The test of the two for loops of main.
LoopContinuesShort(index, count) == index < count - 1
LoopContinues(index, count) == index < count

\* An ssize_t compared with a uint32_t by "!=": where ssize_t is no wider
\* than the word it is converted to unsigned first.
SsizeDiffers(b, r, n) == IF b = "ILP32" THEN ToU32(r) # n ELSE r # n

\* "read(fd, header, length) != length"
RecordReadFailsOnError(b, rb, length) == rb < 0
RecordReadFails(b, rb, length) == SsizeDiffers(b, rb, length)

\* "*curPos += length", curPos a uint32_t
AdvanceCursor(pos, length) == ToU32(pos + length)

\* One turn of the first loop: readPartitionHeader and the printed line.
readPartitionHeader ==
    /\ pc = "readrec"
    /\ LoopContinues(i, pacHeader.partitionCount)
    /\ LET p1 == lseek(build, fdPos, curPos)
       IN  \E rp \in ReadResults(container, p1, LengthSize),
              ok \in BOOLEAN, g \in Garbage :
        LET length == container[p1 + 1]
            p2 == lseek(build, p1 + LengthSize, curPos)
        IN  \/ /\ rp # LengthSize
               /\ Fail("Error while reading partition header length")
               /\ fdPos' = p1 + Max(rp, 0)
               /\ UNCHANGED <<curPos, partHeaders, i, calls, readLog, printed>>
            \/ /\ rp = LengthSize
               /\ ~(ok \in MallocResults(build, length) /\ ok)
               /\ Fail("Memory allocation failed")
               /\ fdPos' = p1 + LengthSize
               /\ UNCHANGED <<curPos, partHeaders, i, calls, readLog, printed>>
            \/ /\ rp = LengthSize
               /\ ok \in MallocResults(build, length) /\ ok
               /\ \E rb \in ReadResults(container, p2, length) :
                    LET mem == Image(SubSeq(container, p2 + 1, p2 + Max(rb, 0)), g)
                        pn == Call("partitionName", NameCap, mem, OffPartitionName)
                        fn == Call("fileName", FileCap, mem, OffFileName)
                        entry == [offset |-> p2, length |-> length, prefixAt |-> p1,
                                  cursor |-> curPos]
                        faults == \/ getString(mem, OffPartitionName).fault
                                  \/ getString(mem, OffFileName).fault
                        undefined == \/ faults
                                     \/ Overflows(pn) \/ Overflows(fn)
                                     \/ Max(rb, 0) < PartitionHeaderSize
                    IN  \/ /\ RecordReadFails(build, rb, length)
                           /\ Fail("Error while reading partition header")
                           /\ fdPos' = p2 + Max(rb, 0)
                           /\ UNCHANGED <<curPos, partHeaders, i, calls, readLog,
                                          printed>>
                        \/ /\ ~RecordReadFails(build, rb, length)
                           /\ undefined
                           /\ Crash
                           /\ fdPos' = p2 + Max(rb, 0)
                           /\ curPos' = AdvanceCursor(curPos, length)
                           /\ partHeaders' = Append(partHeaders, mem)
                           /\ readLog' = Append(readLog, entry)
                           /\ calls' = calls \o <<pn, fn>>
                           /\ UNCHANGED <<i, printed>>
                        \/ /\ ~RecordReadFails(build, rb, length)
                           /\ ~faults
                           /\ fdPos' = p2 + Max(rb, 0)
                           /\ curPos' = AdvanceCursor(curPos, length)
                           /\ partHeaders' = Append(partHeaders, mem)
                           /\ readLog' = Append(readLog, entry)
                           /\ calls' = calls \o <<pn, fn>>
                           /\ printed' = Append(printed,
                                  [partitionName |-> CString(pn.res),
                                   fileName |-> CString(fn.res),
                                   partitionSize |-> mem[OffPartitionSize + 1]])
                           /\ i' = i + 1
                           /\ UNCHANGED <<pc, exitCode, err>>
    /\ UNCHANGED <<inputVars, shown, fd, container, outDir, fs, pacHeader, copyVars,
                   extractLog>>

\* The first loop ends and the second begins.
BeginExtraction ==
    /\ pc = "readrec"
    /\ ~LoopContinues(i, pacHeader.partitionCount)
    /\ pc' = "extract"
    /\ i' = 0
    /\ UNCHANGED <<inputVars, exitCode, err, shown, fileVars, outDir, fs,
                   headerVars, partHeaders, copyVars, logVars>>

\* ------------------------------------------------------ extractPartition
\* write(fd_new, buffer, n): an error, or the number of cells written.
WriteResults(n) == {-1} \cup 0..n

\* remove(outputFilePath), when it does not fail.
RemoveFile(f, name) == [n \in DOMAIN f \ {name} |-> f[n]]

\* remove() and then open(O_WRONLY | O_CREAT | O_TRUNC): an empty file.
CreateOutput(f, name) ==
    [n \in DOMAIN f \cup {name} |-> IF n = name THEN <<>> ELSE f[n]]

\* write() at the end of the open output file.
WriteChunkAtStart(f, name, chunk) == [f EXCEPT ![name] = chunk]
WriteChunk(f, name, chunk) == [f EXCEPT ![name] = f[name] \o chunk]

\* "(dataSizeLeft > BUFFER_SIZE) ? BUFFER_SIZE : dataSizeLeft"
CopyLength(left) == IF left > BUFFER_SIZE THEN BUFFER_SIZE ELSE left

\* The call of extractPartition up to the copy loop.
extractPartition ==
    /\ pc = "extract"
    /\ LoopContinues(i, pacHeader.partitionCount)
    /\ extractLog' = Append(extractLog, i)
    /\ LET hdr == partHeaders[i + 1]
           partitionSize == hdr[OffPartitionSize + 1]
           fn == Call("fileName", FileCap, hdr, OffFileName)
           faults == getString(hdr, OffFileName).fault
           path == CString(fn.res)
       IN  \/ /\ partitionSize = 0
              /\ i' = i + 1
              /\ UNCHANGED <<pc, exitCode, err, fdPos, fs, copyVars, calls>>
           \/ /\ partitionSize # 0
              /\ Fail("Memory allocation failed")
              /\ fdPos' = lseek(build, fdPos, hdr[OffPartitionAddrInPac + 1])
              /\ UNCHANGED <<i, fs, copyVars, calls>>
           \/ /\ partitionSize # 0
              /\ faults \/ Overflows(fn)
              /\ Crash
              /\ fdPos' = lseek(build, fdPos, hdr[OffPartitionAddrInPac + 1])
              /\ calls' = Append(calls, fn)
              /\ UNCHANGED <<i, fs, copyVars>>
           \/ /\ partitionSize # 0
              /\ ~faults
              /\ Fail("Error removing existing output file")
              /\ fdPos' = lseek(build, fdPos, hdr[OffPartitionAddrInPac + 1])
              /\ calls' = Append(calls, fn)
              /\ UNCHANGED <<i, fs, copyVars>>
           \/ /\ partitionSize # 0
              /\ ~faults
              /\ Fail("Error creating output file")
              /\ fdPos' = lseek(build, fdPos, hdr[OffPartitionAddrInPac + 1])
              /\ calls' = Append(calls, fn)
              /\ fs' \in {fs, RemoveFile(fs, path)}
              /\ UNCHANGED <<i, copyVars>>
           \/ /\ partitionSize # 0
              /\ ~faults
              /\ path # <<>>
              /\ fdPos' = lseek(build, fdPos, hdr[OffPartitionAddrInPac + 1])
              /\ calls' = Append(calls, fn)
              /\ fs' = CreateOutput(fs, path)
              /\ fdNew' = path
              /\ dataSizeLeft' = partitionSize
              /\ dataSizeRead' = 0
              /\ pc' = "copy"
              /\ UNCHANGED <<i, exitCode, err>>
    /\ UNCHANGED <<inputVars, shown, fd, container, outDir, headerVars,
                   partHeaders, readLog, printed>>

\* One turn of the copy loop.
copyChunk ==
    /\ pc = "copy"
    /\ dataSizeLeft > 0
    /\ LET copyLength == CopyLength(dataSizeLeft)
       IN  \E rb \in ReadResults(container, fdPos, copyLength),
              wb \in WriteResults(copyLength) :
            LET buffer == SubSeq(container, fdPos + 1, fdPos + Max(rb, 0))
            IN  \/ /\ SsizeDiffers(build, rb, copyLength)
                   /\ Fail("Error while reading partition data")
                   /\ fdPos' = fdPos + Max(rb, 0)
                   /\ UNCHANGED <<fs, copyVars>>
                \/ /\ ~SsizeDiffers(build, rb, copyLength)
                   /\ SsizeDiffers(build, wb, copyLength)
                   /\ Fail("Error while writing partition data")
                   /\ fdPos' = fdPos + rb
                   /\ fs' = WriteChunk(fs, fdNew, SubSeq(buffer, 1, Max(wb, 0)))
                   /\ UNCHANGED copyVars
                \/ /\ ~SsizeDiffers(build, rb, copyLength)
                   /\ ~SsizeDiffers(build, wb, copyLength)
                   /\ fdPos' = fdPos + rb
                   /\ fs' = WriteChunk(fs, fdNew, buffer)
                   /\ dataSizeLeft' = ToU32(dataSizeLeft - copyLength)
                   /\ dataSizeRead' = ToU32(dataSizeRead + copyLength)
                   /\ UNCHANGED <<pc, exitCode, err, fdNew>>
    /\ UNCHANGED <<inputVars, shown, fd, container, outDir, headerVars,
                   partHeaders, i, logVars>>

\* The copy loop ends: close(fd_new), free(buffer), free(partHeaders[i]).
closeOutput ==
    /\ pc = "copy"
    /\ dataSizeLeft = 0
    /\ pc' = "extract"
    /\ i' = i + 1
    /\ fdNew' = <<>>
    /\ UNCHANGED <<inputVars, exitCode, err, shown, fileVars, outDir, fs,
                   headerVars, partHeaders, dataSizeLeft, dataSizeRead, logVars>>

\* The second loop ends: return EXIT_SUCCESS.
Finish ==
    /\ pc = "extract"
    /\ ~LoopContinues(i, pacHeader.partitionCount)
    /\ pc' = "exit"
    /\ exitCode' = 0
    /\ UNCHANGED <<inputVars, err, shown, fileVars, outDir, fs, headerVars,
                   partHeaders, i, copyVars, logVars>>

Next ==
    \/ ParseArgs
    \/ OpenFirmwareFile
    \/ createOutputDirectory
    \/ readPacHeader
    \/ readPartitionHeader
    \/ BeginExtraction
    \/ extractPartition
    \/ copyChunk
    \/ closeOutput
    \/ Finish

Spec == Init /\ [][Next]_vars

\* ------------------------------------------------------------ properties
Extracting == Dispatch(argv) = "extract"
Failed == pc = "exit" /\ exitCode = 1
Done == Extracting /\ pc = "exit" /\ exitCode = 0
HeaderWasRead ==
    /\ Extracting
    /\ \/ pc \in {"readrec", "extract", "copy"}
       \/ (pc \in {"exit", "crashed"} /\ calls # <<>>)

\* The fields of the record extractPartition was last called with.
LastRecord == partHeaders[i]
LastSize == LastRecord[OffPartitionSize + 1]
LastAddr == LastRecord[OffPartitionAddrInPac + 1]
LastPath == CString(getString(LastRecord, OffFileName).res)
PartitionReturned ==
    /\ Extracting
    /\ i >= 1
    /\ \/ pc = "extract"
       \/ (pc = "exit" /\ exitCode = 0)

\* C1: when extractPartition has returned for a record of partitionSize
\* N > 0 whose payload lies inside the container, the file at the
\* destination path holds exactly the N container cells from
\* partitionAddrInPac on, whatever the destination held before.
C1_PayloadCopiedExactly ==
    (PartitionReturned /\ LastSize > 0 /\ LastAddr + LastSize <= Len(container))
        => /\ LastPath \in DOMAIN fs
           /\ fs[LastPath] = SubSeq(container, LastAddr + 1, LastAddr + LastSize)

\* A second extraction to the same path, of a payload that is no multiple
\* of the chunk size, has overwritten the first.
C1_Witness ==
    /\ PartitionReturned
    /\ i = 2
    /\ LastSize = BUFFER_SIZE + 1
    /\ partHeaders[1][OffPartitionSize + 1] = 2 * BUFFER_SIZE
    /\ CString(getString(partHeaders[1], OffFileName).res) = LastPath
    /\ fs[LastPath] = SubSeq(container, LastAddr + 1, LastAddr + LastSize)

\* C2: the first record is read at partitionsListStart and every record
\* after a record of at least the fixed size is read at that record's
\* offset plus its length.
C2_RecordsAreContiguous ==
    \A j \in 1..Len(readLog) :
        /\ j = 1 => readLog[j].offset = ToU32(pacHeader.partitionsListStart)
        /\ (j > 1 /\ readLog[j - 1].length >= PartitionHeaderSize)
              => readLog[j].offset = readLog[j - 1].offset + readLog[j - 1].length

\* C3: no getString call stores more bytes than its destination holds.
C3_OutputIsBounded == \A k \in 1..Len(calls) : Len(calls[k].res) <= calls[k].cap

\* The low bytes of the code units of a field up to its first zero unit.
Expected(src) ==
    LET n == IF \E k \in 1..Len(src) : src[k] = 0
             THEN SetMin({k \in 1..Len(src) : src[k] = 0}) - 1
             ELSE Len(src)
    IN  [k \in 1..n |-> src[k] % ByteMod]

\* C4: every decoded string is the low bytes of the code units of its own
\* field, up to the first zero unit or the capacity of the field.
C4_DecodesOwnFieldOnly == \A k \in 1..Len(calls) : calls[k].res = Expected(calls[k].src)

\* C5: -h alone prints the usage and -v alone the version, both with exit
\* code 0.
C5_HelpAndVersionExitZero ==
    /\ (pc = "exit" /\ Len(argv) = 2 /\ argv[2] = "-h")
          => (exitCode = 0 /\ shown = "usage")
    /\ (pc = "exit" /\ Len(argv) = 2 /\ argv[2] = "-v")
          => (exitCode = 0 /\ shown = "version")

\* C6: no record whose length prefix is below the fixed size is accepted.
C6_ShortRecordRejected ==
    \A j \in 1..Len(readLog) : readLog[j].length >= PartitionHeaderSize

\* C7: a negative partitionCount ends the run in Failed once the header is
\* read, with no record read and no partition extracted.
C7_NegativeCountFails ==
    (HeaderWasRead /\ pacHeader.partitionCount < 0)
        => (Failed /\ readLog = <<>> /\ extractLog = <<>>)

\* C8: a container smaller than the header is rejected before the output
\* directory is touched and before anything is read.
C8_ShortFileRejectedFirst ==
    (fd # -1 /\ err # "Error getting file stats" /\ Len(container) < PacHeaderSize)
        => /\ Failed
           /\ outDir = "untouched"
           /\ fdPos = 0
           /\ pacHeader = NoHeader
           /\ calls = <<>> /\ readLog = <<>> /\ extractLog = <<>>
           /\ fs \in InitialFs

C8_Witness ==
    /\ fd # -1
    /\ Len(container) = PacHeaderSize - 1
    /\ Failed
    /\ err = "not a valid firmware"
    /\ outDir = "untouched"

\* The record about to be read declares more cells than the file holds
\* from the place the record is read at.
TruncatedRecordAhead ==
    /\ pc = "readrec"
    /\ LoopContinues(i, pacHeader.partitionCount)
    /\ LET p1 == lseek(build, fdPos, curPos)
           p2 == lseek(build, p1 + LengthSize, curPos)
       IN  /\ p1 + LengthSize <= Len(container)
           /\ container[p1 + 1] > Len(container) - p2

\* C9: a step from such a state fails the run, decodes and prints nothing,
\* leaves the cursor and extracts nothing.
C9_TruncatedRecordFails ==
    [][TruncatedRecordAhead
          => /\ pc' = "exit" /\ exitCode' = 1
             /\ curPos' = curPos
             /\ calls' = calls /\ printed' = printed
             /\ partHeaders' = partHeaders /\ readLog' = readLog
             /\ extractLog' = <<>> /\ fs' \in InitialFs]_vars

\* The second record was truncated: the first was read and printed, the
\* run failed on the read of the second.
C9_Witness ==
    /\ Failed
    /\ err = "Error while reading partition header"
    /\ Len(readLog) = 1 /\ Len(printed) = 1
    /\ curPos + LengthSize <= Len(container)
    /\ container[curPos + 1] > Len(container) - curPos
    /\ container[curPos + 1] >= PartitionHeaderSize
    /\ extractLog = <<>>

\* What every state of a linear one-pass run satisfies: one header read, at
\* most partitionCount records read, extraction only after all of them, in
\* the order read and each once, Done only with every record extracted.
C10_State ==
    /\ Cardinality({k \in 1..Len(calls) : calls[k].field = "firmwareName"}) <= 1
    /\ Len(readLog) <= Max(pacHeader.partitionCount, 0)
    /\ Len(partHeaders) = Len(readLog)
    /\ extractLog # <<>> => Len(readLog) = pacHeader.partitionCount
    /\ \A j \in 1..Len(extractLog) : extractLog[j] = j - 1
    /\ Len(extractLog) <= Len(readLog)
    /\ pc \in {"extract", "copy"} => i <= Len(readLog)
    /\ Done => /\ Len(extractLog) = Len(readLog)
               /\ i = Len(readLog)
               /\ pacHeader.partitionCount >= 0 => Len(readLog) = pacHeader.partitionCount
    /\ pc = "exit" => exitCode \in {0, 1}

\* What every step satisfies: nothing follows the end of the run, a step
\* reads or extracts at most one record, no record is read once extraction
\* has begun, and a failure ends the run.
C10_Step ==
    /\ pc \notin {"exit", "crashed"}
    /\ Len(readLog') >= Len(readLog)
    /\ Len(extractLog') >= Len(extractLog)
    /\ Len(extractLog') <= Len(extractLog) + 1
    /\ Len(readLog') <= Len(readLog) + 1
    /\ Len(readLog') > Len(readLog) => extractLog = <<>>
    /\ exitCode' = 1 => pc' = "exit"

\* C10: the driver is a strictly linear one-pass pipeline: the header is
\* read once, then the records, then the partitions are extracted in the
\* order read, each at most once; the first failure ends the run with exit
\* code 1 and Done is reached only after every record was extracted.
C10_LinearPipeline == [](C10_State) /\ [][C10_Step]_vars

C10_Witness ==
    /\ Done
    /\ pacHeader.partitionCount = 2
    /\ extractLog = <<0, 1>>
    /\ Len(readLog) = 2
    /\ partHeaders[1][OffPartitionSize + 1] > BUFFER_SIZE

====
